---- MODULE Spec2Model ----
(***************************************************************************)
(* Model of examples/python/azure_management.py: the command line entry    *)
(* point main(), the logger factory setup_logging() and the facade         *)
(* AzureResourceManager over the provider's management client.             *)
(*                                                                         *)
(* One run of the script is one behaviour.  The command line (argv), the   *)
(* provider's answers and the user's interruption are the environment:     *)
(* argv is drawn in Init, the provider's answers and the interruption are  *)
(* drawn with \E in the action that receives them.                         *)
(***************************************************************************)
EXTENDS Integers, Sequences, FiniteSets, TLC

\* ------------------------------------------------------------------ bounds
\* longest lazy sequence the provider yields from resource_groups.list()
MaxGroups == 2

\* ------------------------------------------------------- python constants
Absent == "<None>"          \* a flag not given on the command line
NoExit == -1                \* the process has not terminated yet

ActionChoices == {"create", "list"}
EnvironmentChoices == {"dev", "staging", "prod"}
LogLevelChoices == {"DEBUG", "INFO", "WARNING", "ERROR"}
DefaultLocation == "West Europe"
DefaultEnvironment == "dev"
DefaultLogLevel == "INFO"

\* ----------------------------------------------------- command line input
ArgvActions == {"create", "list", "delete", Absent}
ArgvSubscriptions == {"S", Absent}
ArgvGroups == {"rg1", "", Absent}
ArgvLocations == {"eastus", Absent}
ArgvEnvironments == {"dev", "staging", "prod", "qa", Absent}
ArgvLogLevels == {"DEBUG", "INFO", "WARNING", "ERROR", "info", "CRITICAL", "VERBOSE", Absent}

Argvs ==
    [action : ArgvActions, subscription_id : ArgvSubscriptions,
     resource_group : ArgvGroups, location : ArgvLocations,
     environment : ArgvEnvironments, log_level : ArgvLogLevels]

\* ------------------------------------------------------ provider's values
\* a tag mapping is a set of <<key, value>> pairs; the provider's tags field
\* may also be None
TagsNone == [isNone |-> TRUE, map |-> {}]
Dict(m) == [isNone |-> FALSE, map |-> m]
ProviderTags == {TagsNone, Dict({}), Dict({<<"team", "ops">>})}
ProviderGroups == [name : {"rg1", "rg2"}, location : {"eastus"}, tags : ProviderTags]

\* Python: x or {}  (None and the empty mapping are both falsy)
OrEmptyDict(t) == IF t.isNone \/ t.map = {} THEN {} ELSE t.map

\* variant: only the empty string counts as missing, None does not
NotStrEmptyOnly(s) == s = ""

\* Python: not s, for an optional string
NotStr(s) == s = Absent \/ s = ""

VARIABLES
    argv,            \* the command line of the run
    pc,              \* position of the single thread of control
    args,            \* argparse namespace, defaults applied
    how,             \* "running", "exit" (exit status) or "signal" (killed)
    exit,            \* exit status, or the number of the killing signal
    loggerLevel,     \* threshold of the logger, NoLogger until it is built
    log,             \* logger.info / logger.error calls issued, in order
    stdout,          \* records the handler emitted (calls at or above threshold)
    arm,             \* TRUE once the facade is constructed
    requests,        \* requests issued to the management client, in order
    provided,        \* groups the provider's lazy sequence has yielded
    resource_groups, \* the list list_resource_groups is building
    createRet,       \* return value of create_resource_group
    listRet,         \* return value of list_resource_groups
    failure,         \* error raised by the provider call, "" if none
    interrupted      \* where KeyboardInterrupt arrived, "" if nowhere

vars == <<argv, pc, args, how, exit, loggerLevel, log, stdout, arm,
          requests, provided, resource_groups, createRet, listRet, failure,
          interrupted>>

NoArgs == [action |-> Absent, subscription_id |-> Absent, resource_group |-> Absent,
           location |-> Absent, environment |-> Absent, log_level |-> Absent]
NoLogger == -1
ListUnset == [set |-> FALSE, isNone |-> FALSE, items |-> <<>>]
ListNone == [set |-> TRUE, isNone |-> TRUE, items |-> <<>>]
ListOf(items) == [set |-> TRUE, isNone |-> FALSE, items |-> items]

Init ==
    /\ argv \in Argvs
    /\ pc = "parse_args"
    /\ args = NoArgs
    /\ how = "running"
    /\ exit = NoExit
    /\ loggerLevel = NoLogger
    /\ log = <<>>
    /\ stdout = <<>>
    /\ arm = FALSE
    /\ requests = <<>>
    /\ provided = <<>>
    /\ resource_groups = <<>>
    /\ createRet = "unset"
    /\ listRet = ListUnset
    /\ failure = ""
    /\ interrupted = ""

\* ----------------------------------------------------------------- logging
\* getattr(logging, NAME): the severities the logging module defines;
\* NoLogger stands for the AttributeError of an unknown name
LoggingAttr(name) ==
    CASE name = "DEBUG" -> 10
      [] name = "INFO" -> 20
      [] name = "WARNING" -> 30
      [] name = "ERROR" -> 40
      [] name = "CRITICAL" -> 50
      [] OTHER -> NoLogger

\* str.upper() on the level names of the input
Upper(name) == IF name = "info" THEN "INFO" ELSE name

\* one logger call: severity, message and the values formatted into it
Rec(level, text, a, b) == [level |-> level, text |-> text, a |-> a, b |-> b]

\* Logger.isEnabledFor: a call is emitted when its severity reaches the threshold
Emit(recs) == SelectSeq(recs, LAMBDA r : LoggingAttr(r.level) >= loggerLevel)

Logs(recs) ==
    /\ log' = log \o recs
    /\ stdout' = stdout \o Emit(recs)

\* ------------------------------------------------------------- termination
SysExit(status) ==
    /\ pc' = "done"
    /\ how' = "exit"
    /\ exit' = status

\* KeyboardInterrupt no handler catches: the interpreter prints the traceback
\* and exits with status 1 (CPython before 3.8) or kills itself with SIGINT
\* (CPython 3.8 and later on POSIX); the script pins no interpreter version
UncaughtKeyboardInterrupt ==
    {[how |-> "exit", exit |-> 1], [how |-> "signal", exit |-> 2]}

\* ------------------------------------------------------------- parse_args
ActionAccepted(v) == v \in ActionChoices
SubscriptionAccepted(v) == v # Absent
EnvironmentAccepted(v) == v = Absent \/ v \in EnvironmentChoices
\* variant: --log-level declared without choices
LogLevelAnyAccepted(v) == TRUE
LogLevelAccepted(v) == v = Absent \/ v \in LogLevelChoices
Default(v, d) == IF v = Absent THEN d ELSE v

ParseArgs ==
    /\ pc = "parse_args"
    /\ IF /\ ActionAccepted(argv.action)
          /\ SubscriptionAccepted(argv.subscription_id)
          /\ EnvironmentAccepted(argv.environment)
          /\ LogLevelAccepted(argv.log_level)
       THEN /\ args' = [action |-> argv.action,
                        subscription_id |-> argv.subscription_id,
                        resource_group |-> argv.resource_group,
                        location |-> Default(argv.location, DefaultLocation),
                        environment |-> Default(argv.environment, DefaultEnvironment),
                        log_level |-> Default(argv.log_level, DefaultLogLevel)]
            /\ pc' = "setup_logging"
            /\ UNCHANGED <<how, exit>>
       ELSE \* parser.error(): usage message on stderr, exit status 2
            /\ SysExit(2)
            /\ UNCHANGED args
    /\ UNCHANGED <<argv, loggerLevel, log, stdout, arm, requests, provided,
                   resource_groups, createRet, listRet, failure, interrupted>>

\* ---------------------------------------------------------- setup_logging
\* called before the try statement of main: nothing catches what it raises
SetupLogging ==
    /\ pc = "setup_logging"
    /\ \E outcome \in {"ok", "KeyboardInterrupt"} :
         IF outcome = "KeyboardInterrupt"
         THEN /\ interrupted' = "setup_logging"
              /\ \E o \in UncaughtKeyboardInterrupt : how' = o.how /\ exit' = o.exit
              /\ pc' = "done"
              /\ UNCHANGED loggerLevel
         ELSE IF LoggingAttr(Upper(args.log_level)) = NoLogger
              THEN \* AttributeError, uncaught: traceback, exit status 1
                   /\ SysExit(1)
                   /\ UNCHANGED <<loggerLevel, interrupted>>
              ELSE /\ loggerLevel' = LoggingAttr(Upper(args.log_level))
                   /\ pc' = "init_arm"
                   /\ UNCHANGED <<how, exit, interrupted>>
    /\ UNCHANGED <<argv, args, log, stdout, arm, requests, provided,
                   resource_groups, createRet, listRet, failure>>

\* ------------------------------------------------------- top-level guard
\* except KeyboardInterrupt / except Exception of main
GuardStatus(exc) == IF exc = "KeyboardInterrupt" THEN 130 ELSE 1
GuardLog(exc) ==
    IF exc = "KeyboardInterrupt"
    THEN <<Rec("INFO", "Operation cancelled by user", "", "")>>
    ELSE <<Rec("ERROR", "Unexpected error", exc, "")>>

Guard(exc, before) ==
    /\ Logs(before \o GuardLog(exc))
    /\ SysExit(GuardStatus(exc))

\* -------------------------------------------- AzureResourceManager.__init__
InitArm ==
    /\ pc = "init_arm"
    /\ \E outcome \in {"ok", "Exception", "KeyboardInterrupt"} :
         IF outcome = "ok"
         THEN /\ arm' = TRUE
              /\ pc' = "dispatch"
              /\ UNCHANGED <<how, exit, log, stdout, interrupted>>
         ELSE /\ Guard(outcome, <<>>)
              /\ interrupted' = IF outcome = "KeyboardInterrupt" THEN "init_arm" ELSE ""
              /\ UNCHANGED arm
    /\ UNCHANGED <<argv, args, loggerLevel, requests, provided,
                   resource_groups, createRet, listRet, failure>>

\* ------------------------------------------------- facade: error boundary
\* except AzureError / except Exception of both facade operations;
\* KeyboardInterrupt is a BaseException and matches neither clause
\* variant: the catch-all except clause is missing
FacadeCatchesAzureOnly(exc) == exc = "AzureError"

FacadeCatches(exc) == exc \in {"AzureError", "Exception", "AttributeError"}

FacadeErrorLog(exc, what) ==
    IF exc = "AzureError"
    THEN <<Rec("ERROR", "Azure error " \o what, exc, "")>>
    ELSE <<Rec("ERROR", "Unexpected error", exc, "")>>

\* ----------------------------------------------------------- main: create
MissingGroup(a) == NotStr(a.resource_group)

CreateMissingGroup ==
    /\ pc = "dispatch"
    /\ args.action = "create"
    /\ MissingGroup(args)
    /\ Logs(<<Rec("ERROR", "Resource group name is required for create action", "", "")>>)
    /\ SysExit(1)
    /\ UNCHANGED <<argv, args, loggerLevel, arm, requests, provided,
                   resource_groups, createRet, listRet, failure, interrupted>>

\* variant: the environment is hard-wired instead of taken from the flag
TagsFixedEnvironment(environment) ==
    {<<"Environment", "dev">>,
     <<"ManagedBy", "DevOps-Automation">>,
     <<"Project", "DevOps-Tools">>}

\* tags = {'Environment': ..., 'ManagedBy': ..., 'Project': ...}
Tags(environment) ==
    {<<"Environment", environment>>,
     <<"ManagedBy", "DevOps-Automation">>,
     <<"Project", "DevOps-Tools">>}

\* rg_params = {'location': location, 'tags': tags or {}}
RgParams(location, tags) == [location |-> location, tags |-> OrEmptyDict(tags)]

Request(op, name, params) == [op |-> op, name |-> name, params |-> params]

\* main builds the tags and calls create_resource_group, which logs, builds
\* rg_params and issues the create-or-update request
CreateCall ==
    /\ pc = "dispatch"
    /\ args.action = "create"
    /\ ~MissingGroup(args)
    /\ Logs(<<Rec("INFO", "Creating resource group", args.resource_group, "")>>)
    /\ requests' = Append(requests,
                          Request("create_or_update", args.resource_group,
                                  RgParams(args.location, Dict(Tags(args.environment)))))
    /\ pc' = "create_or_update"
    /\ UNCHANGED <<argv, args, how, exit, loggerLevel, arm, provided,
                   resource_groups, createRet, listRet, failure, interrupted>>

\* what the request can come back with: a group object, no object (a 2xx
\* response without a body deserializes to None), an error, or the user's
\* interruption while the call blocks
CreateOutcomes == {"ResourceGroup", "None", "AzureError", "Exception", "KeyboardInterrupt"}

\* variant: a failed request is issued again (up to three attempts)
CreateFailedRetry(exc) ==
    /\ Logs(FacadeErrorLog(exc, "creating resource group"))
    /\ IF Len(requests) < 3
       THEN /\ requests' = Append(requests, requests[Len(requests)])
            /\ pc' = "create_or_update"
            /\ UNCHANGED createRet
       ELSE /\ createRet' = "False"
            /\ pc' = "after_create"
            /\ UNCHANGED requests
    /\ UNCHANGED <<how, exit>>

\* the facade's except clause caught exc: log it and return False
CreateFailed(exc) ==
    /\ Logs(FacadeErrorLog(exc, "creating resource group"))
    /\ createRet' = "False"
    /\ pc' = "after_create"
    /\ UNCHANGED <<how, exit, requests>>

CreateRaised(exc) ==
    IF FacadeCatches(exc)
    THEN CreateFailed(exc)
    ELSE /\ Guard(exc, <<>>)
         /\ UNCHANGED <<createRet, requests>>

CreateOrUpdateReturns ==
    /\ pc = "create_or_update"
    /\ \E outcome \in CreateOutcomes :
         CASE outcome = "ResourceGroup" ->
                /\ Logs(<<Rec("INFO", "Resource group created successfully",
                              args.resource_group, "")>>)
                /\ createRet' = "True"
                /\ pc' = "after_create"
                /\ UNCHANGED <<how, exit, requests, failure, interrupted>>
           [] outcome = "None" ->
                \* result.name on None raises AttributeError inside the try
                /\ CreateRaised("AttributeError")
                /\ UNCHANGED <<failure, interrupted>>
           [] outcome = "KeyboardInterrupt" ->
                /\ CreateRaised(outcome)
                /\ interrupted' = "create_or_update"
                /\ UNCHANGED failure
           [] OTHER ->
                /\ CreateRaised(outcome)
                /\ failure' = outcome
                /\ UNCHANGED interrupted
    /\ UNCHANGED <<argv, args, loggerLevel, arm, provided, resource_groups, listRet>>

\* variant: the failure branch forgets its exit status
CreateExitStatusAlwaysZero(success) == 0

CreateExitStatus(success) == IF success THEN 0 ELSE 1

MainAfterCreate ==
    /\ pc = "after_create"
    /\ Logs(IF createRet = "True"
            THEN <<Rec("INFO", "Resource group creation completed successfully", "", "")>>
            ELSE <<Rec("ERROR", "Resource group creation failed", "", "")>>)
    /\ SysExit(CreateExitStatus(createRet = "True"))
    /\ UNCHANGED <<argv, args, loggerLevel, arm, requests, provided,
                   resource_groups, createRet, listRet, failure, interrupted>>

\* ------------------------------------------------------------- main: list
\* list_resource_groups logs, starts with an empty list and asks for the
\* groups; the provider answers lazily, one group per iteration step
ListCall ==
    /\ pc = "dispatch"
    /\ args.action = "list"
    /\ Logs(<<Rec("INFO", "Listing resource groups", "", "")>>)
    /\ resource_groups' = <<>>
    /\ requests' = Append(requests, Request("list", "", RgParams("", TagsNone)))
    /\ pc' = "list"
    /\ UNCHANGED <<argv, args, how, exit, loggerLevel, arm, provided,
                   createRet, listRet, failure, interrupted>>

\* {'name': rg.name, 'location': rg.location, 'tags': rg.tags or {}}
GroupRecord(rg) == [name |-> rg.name, location |-> rg.location, tags |-> OrEmptyDict(rg.tags)]

ListYield ==
    /\ pc = "list"
    /\ Len(provided) < MaxGroups
    /\ \E rg \in ProviderGroups :
         /\ provided' = Append(provided, rg)
         /\ resource_groups' = Append(resource_groups, GroupRecord(rg))
    /\ UNCHANGED <<argv, pc, args, how, exit, loggerLevel, log, stdout, arm,
                   requests, createRet, listRet, failure, interrupted>>

\* the sequence is exhausted: log the count and return the list
ListEnd ==
    /\ pc = "list"
    /\ Logs(<<Rec("INFO", "Found resource groups", ToString(Len(resource_groups)), "")>>)
    /\ listRet' = ListOf(resource_groups)
    /\ pc' = "after_list"
    /\ UNCHANGED <<argv, args, how, exit, loggerLevel, arm, requests, provided,
                   resource_groups, createRet, failure, interrupted>>

\* variant: the groups read before the failure are returned
ListFailedPrefix(exc) ==
    /\ Logs(FacadeErrorLog(exc, "listing resource groups"))
    /\ listRet' = ListOf(resource_groups)
    /\ pc' = "after_list"
    /\ UNCHANGED <<how, exit, requests>>

\* the facade's except clause caught exc: log it and return None
ListFailed(exc) ==
    /\ Logs(FacadeErrorLog(exc, "listing resource groups"))
    /\ listRet' = ListNone
    /\ pc' = "after_list"
    /\ UNCHANGED <<how, exit, requests>>

ListRaised(exc) ==
    IF FacadeCatches(exc)
    THEN ListFailed(exc)
    ELSE /\ Guard(exc, <<>>)
         /\ UNCHANGED <<listRet, requests>>

\* the request, or a later page of it, fails, or the user interrupts it
ListRaises ==
    /\ pc = "list"
    /\ \E exc \in {"AzureError", "Exception", "KeyboardInterrupt"} :
         /\ ListRaised(exc)
         /\ IF exc = "KeyboardInterrupt"
            THEN interrupted' = "list" /\ UNCHANGED failure
            ELSE failure' = exc /\ UNCHANGED interrupted
    /\ UNCHANGED <<argv, args, loggerLevel, arm, provided, resource_groups, createRet>>

\* variant: the loop skips the first record
GroupLinesSkipFirst(groups) ==
    [i \in 1..(Len(groups) - 1) |->
        Rec("INFO", "  - ", groups[i + 1].name, groups[i + 1].location)]

\* logger.info(f"  - {rg['name']} ({rg['location']})") for rg in resource_groups
GroupLines(groups) ==
    [i \in 1..Len(groups) |-> Rec("INFO", "  - ", groups[i].name, groups[i].location)]

MainAfterList ==
    /\ pc = "after_list"
    /\ IF ~listRet.isNone
       THEN /\ Logs(<<Rec("INFO", "Resource Groups:", "", "")>> \o GroupLines(listRet.items))
            /\ SysExit(0)
       ELSE /\ Logs(<<Rec("ERROR", "Failed to list resource groups", "", "")>>)
            /\ SysExit(1)
    /\ UNCHANGED <<argv, args, loggerLevel, arm, requests, provided,
                   resource_groups, createRet, listRet, failure, interrupted>>

Next ==
    \/ ParseArgs
    \/ SetupLogging
    \/ InitArm
    \/ CreateMissingGroup
    \/ CreateCall
    \/ CreateOrUpdateReturns
    \/ MainAfterCreate
    \/ ListCall
    \/ ListYield
    \/ ListEnd
    \/ ListRaises
    \/ MainAfterList

Spec == Init /\ [][Next]_vars

\* ------------------------------------------------------------------ claims
Terminated == pc = "done"
CreateRequested == \E i \in 1..Len(requests) : requests[i].op = "create_or_update"
GroupLinesIn(recs) == SelectSeq(recs, LAMBDA r : r.text = "  - ")
InvalidLogLevel == argv.log_level # Absent /\ argv.log_level \notin LogLevelChoices
OtherFlagsValid ==
    /\ argv.action \in ActionChoices
    /\ argv.subscription_id # Absent
    /\ argv.environment \in EnvironmentChoices \cup {Absent}

\* C1: in a create run with a resource-group name, once create_resource_group
\* has returned, the process ends with exit status 0 if it returned True and
\* with exit status 1 if it returned False; the status chosen in the branch
\* is the final one.
C1_CreateExitStatus ==
    (Terminated /\ createRet # "unset") =>
        /\ how = "exit"
        /\ (createRet = "True" => exit = 0)
        /\ (createRet = "False" => exit = 1)

C1_Witness ==
    /\ Terminated
    /\ args.action = "create" /\ args.resource_group = "rg1"
    /\ createRet = "False" /\ exit = 1

C1_WitnessTrue ==
    /\ Terminated
    /\ args.action = "create" /\ args.resource_group = "rg1"
    /\ createRet = "True" /\ exit = 0

\* C2: in a create run without --resource-group, create_resource_group is
\* never invoked and no create-or-update request is issued, and the run, when
\* the user does not interrupt it, ends with exit status 1.
C2_MissingGroupExits1 ==
    (args.action = "create" /\ argv.resource_group = Absent) =>
        /\ ~CreateRequested
        /\ createRet = "unset"
        /\ \A i \in 1..Len(log) : log[i].text # "Creating resource group"
        /\ (Terminated /\ interrupted = "" => how = "exit" /\ exit = 1)

C2_Witness ==
    /\ Terminated
    /\ args.action = "create" /\ argv.resource_group = Absent
    /\ arm
    /\ interrupted = ""
    /\ Len(log) = 1
    /\ log[1].text = "Resource group name is required for create action"
    /\ exit = 1

\* C3 (as claimed): user interruption at any point after argument parsing
\* ends the process with exit status 130, never with status 1.
C3_InterruptExits130 ==
    (Terminated /\ interrupted # "") => (how = "exit" /\ exit = 130)

\* C4: every failure raised by the provider call, provider-reported or not,
\* makes create_resource_group return False and list_resource_groups return
\* None with an error logged; the failure does not propagate to main.
C4_FacadeBoundary ==
    failure # "" =>
        /\ args.action = "create" => createRet = "False"
        /\ args.action = "list" => listRet = ListNone
        /\ \E i \in 1..Len(log) : log[i].level = "ERROR" /\ log[i].a = failure
        /\ \E i \in 1..Len(stdout) : stdout[i].level = "ERROR" /\ stdout[i].a = failure
        /\ Terminated => (how = "exit" /\ exit = 1 /\ log[Len(log)].text # "Unexpected error")

C4_Witness ==
    /\ failure = "Exception"
    /\ args.action = "create"
    /\ createRet = "False"
    /\ pc = "after_create"

C4_WitnessList ==
    /\ failure = "Exception"
    /\ listRet = ListNone
    /\ pc = "after_list"

\* C5: in a list run, when list_resource_groups returned n records the process
\* logs one group line per record, in order, with the record's name and
\* location (emitted when the threshold admits INFO), and exits 0; when it
\* returned None the process logs an error, no group line, and exits 1.
C5_ListDispatch ==
    (Terminated /\ listRet.set) =>
        IF ~listRet.isNone
        THEN /\ how = "exit" /\ exit = 0
             /\ Len(GroupLinesIn(log)) = Len(listRet.items)
             /\ \A i \in 1..Len(listRet.items) :
                    /\ GroupLinesIn(log)[i].a = listRet.items[i].name
                    /\ GroupLinesIn(log)[i].b = listRet.items[i].location
                    /\ GroupLinesIn(log)[i].level = "INFO"
             /\ loggerLevel <= 20 => GroupLinesIn(stdout) = GroupLinesIn(log)
        ELSE /\ how = "exit" /\ exit = 1
             /\ GroupLinesIn(log) = <<>>
             /\ log[Len(log)] = Rec("ERROR", "Failed to list resource groups", "", "")
             /\ stdout[Len(stdout)] = log[Len(log)]

C5_Witness ==
    /\ Terminated
    /\ listRet.set /\ ~listRet.isNone
    /\ Len(listRet.items) = 2
    /\ listRet.items[1].name = "rg2" /\ listRet.items[2].name = "rg1"
    /\ GroupLinesIn(stdout) = GroupLinesIn(log)
    /\ exit = 0

C5_WitnessEmpty ==
    Terminated /\ listRet.set /\ ~listRet.isNone /\ listRet.items = <<>> /\ exit = 0

C5_WitnessNone ==
    Terminated /\ listRet.set /\ listRet.isNone /\ exit = 1

\* the state a failed logger factory leaves: arguments parsed, no logger
\* built, the run over without interruption
LoggerFactoryFailed ==
    /\ Terminated
    /\ args # NoArgs
    /\ loggerLevel = NoLogger
    /\ interrupted = ""

\* C6 (as claimed): with an invalid --log-level value the logger factory fails
\* with a configuration error before any operation runs.
C6_LoggerFactoryFails ==
    (Terminated /\ InvalidLogLevel /\ OtherFlagsValid) =>
        /\ LoggerFactoryFailed
        /\ ~arm
        /\ requests = <<>>

\* C6 (amended): with an invalid --log-level value the argument parser rejects
\* the command line, exit status 2, before the logger factory is called: no
\* logger and no facade is built, nothing is logged, no provider call is made.
C6_ParserRejectsLogLevel ==
    InvalidLogLevel =>
        /\ pc \in {"parse_args", "done"}
        /\ args = NoArgs
        /\ loggerLevel = NoLogger
        /\ ~arm
        /\ requests = <<>>
        /\ log = <<>>
        /\ Terminated => (how = "exit" /\ exit = 2)

C6_Witness ==
    /\ Terminated
    /\ argv.log_level = "info"
    /\ OtherFlagsValid
    /\ exit = 2

\* C7: no error is retried: a run issues at most one provider request, and
\* once a provider request has failed no further request is issued.
C7_NoRetry ==
    /\ [](Len(requests) <= 1)
    /\ [][failure # "" => requests' = requests]_vars

C7_Witness ==
    /\ Terminated
    /\ failure = "AzureError"
    /\ args.action = "create"
    /\ Len(requests) = 1

\* C8: a create run with a resource-group name sends the given name and
\* location and exactly the tags Environment (the given environment),
\* ManagedBy = DevOps-Automation and Project = DevOps-Tools, for each of the
\* environments dev, staging and prod.
C8_ExactTags ==
    \A i \in 1..Len(requests) :
        requests[i].op = "create_or_update" =>
            /\ requests[i].name = argv.resource_group
            /\ requests[i].name \notin {Absent, ""}
            /\ requests[i].params.location =
                   (IF argv.location = Absent THEN "West Europe" ELSE argv.location)
            /\ requests[i].params.tags =
                   {<<"Environment",
                      IF argv.environment = Absent THEN "dev" ELSE argv.environment>>,
                    <<"ManagedBy", "DevOps-Automation">>,
                    <<"Project", "DevOps-Tools">>}
            /\ Cardinality(requests[i].params.tags) = 3
            /\ \E e \in {"dev", "staging", "prod"} :
                   <<"Environment", e>> \in requests[i].params.tags

C8_Witness ==
    /\ CreateRequested
    /\ argv.environment = "prod"
    /\ argv.location = "eastus"
    /\ <<"Environment", "prod">> \in requests[1].params.tags

C9_WitnessFull ==
    /\ listRet.set /\ failure = ""
    /\ Len(provided) = 2
    /\ provided[1].tags.isNone
    /\ provided[2].tags = Dict({<<"team", "ops">>})

\* C10 (as claimed): create_resource_group returns True whenever the
\* create-or-update request completed without error and False only when the
\* request failed.
C10_AcceptedIsTrue ==
    createRet # "unset" => (createRet = "True" <=> failure = "")
====
